---- MODULE Spec2Model ----
(***************************************************************************)
(* Model of the transcript-link CSV validator                              *)
(* (scripts/validateTranscriptCsv.mjs) and of the lookup form's            *)
(* graduationInRange (TranscriptLinkFinder component).                     *)
(*                                                                         *)
(* Text is modelled as a sequence of one-character strings, so that        *)
(* trimming, the regular expressions and parseInt are computed character   *)
(* by character as the code computes them.                                 *)
(***************************************************************************)
EXTENDS Integers, Sequences, FiniteSets, TLC

VARIABLES
    pc,              \* position of main(): "parse", "classify", "reconcile", "report", "exit"
    currentYear,     \* const currentYear = new Date().getFullYear()
    parsedErrors,    \* parsed.errors.length > 0
    nRows,           \* rows.length
    index,           \* number of rows already handed to the forEach callback
    row,             \* the row most recently handed to the forEach callback
    issues,          \* the six issue lists
    rangesBySchool,  \* Map<schoolName, facts[]>, as a sequence of entries in insertion order
    exitCode,        \* process exit status, -1 while running
    passedPrinted,   \* "CSV validation passed" was printed
    ppc,             \* position of the parser harness
    rawType,         \* parser harness: the Type text
    gradYear,        \* parser harness: the graduation year looked up
    parsedType,      \* parser harness: parseType(rawType)
    inRange          \* parser harness: graduationInRange(rawType, gradYear)

vars == <<pc, currentYear, parsedErrors, nRows, index, row, issues,
          rangesBySchool, exitCode, passedPrinted,
          ppc, rawType, gradYear, parsedType, inRange>>

mainVars == <<pc, parsedErrors, nRows, index, row, issues,
              rangesBySchool, exitCode, passedPrinted>>

harnessVars == <<ppc, rawType, gradYear, parsedType, inRange>>

(***************************************************************************)
(* Bounds                                                                  *)
(***************************************************************************)
MaxRows == 3         \* most data rows in a table
MaxBlank == 2        \* longest run of whitespace generated inside a Type text

(***************************************************************************)
(* Characters and strings                                                  *)
(***************************************************************************)
Whitespace == {" ", "\t"}

Digits == {"0", "1", "2", "3", "4", "5", "6", "7", "8", "9"}

UpperAlphabet == <<"A", "B", "C", "D", "E", "F", "G", "H", "I", "J", "K", "L", "M",
                   "N", "O", "P", "Q", "R", "S", "T", "U", "V", "W", "X", "Y", "Z">>

LowerAlphabet == <<"a", "b", "c", "d", "e", "f", "g", "h", "i", "j", "k", "l", "m",
                   "n", "o", "p", "q", "r", "s", "t", "u", "v", "w", "x", "y", "z">>

\* the i flag of the regular expressions: letters compare by their lower case
toLowerCase(c) ==
    IF \E i \in 1..26 : UpperAlphabet[i] = c
    THEN LowerAlphabet[CHOOSE i \in 1..26 : UpperAlphabet[i] = c]
    ELSE c

EqualsIgnoreCase(s, w) ==
    /\ Len(s) = Len(w)
    /\ \A i \in 1..Len(s) : toLowerCase(s[i]) = toLowerCase(w[i])

RECURSIVE trimStart(_)
trimStart(s) ==
    IF s # <<>> /\ Head(s) \in Whitespace THEN trimStart(Tail(s)) ELSE s

RECURSIVE trimEnd(_)
trimEnd(s) ==
    IF s # <<>> /\ s[Len(s)] \in Whitespace
    THEN trimEnd(SubSeq(s, 1, Len(s) - 1))
    ELSE s

\* String.prototype.trim
trim(s) == trimEnd(trimStart(s))

\* String.prototype.includes: case-sensitive substring test
includes(s, w) ==
    \E i \in 1..(Len(s) - Len(w) + 1) : SubSeq(s, i, i + Len(w) - 1) = w

DigitVal(c) ==
    CASE c = "0" -> 0 [] c = "1" -> 1 [] c = "2" -> 2 [] c = "3" -> 3
      [] c = "4" -> 4 [] c = "5" -> 5 [] c = "6" -> 6 [] c = "7" -> 7
      [] c = "8" -> 8 [] c = "9" -> 9

\* NaN, the result of parseInt on text with no leading digit
NaN == -1

RECURSIVE LeadingDigits(_)
LeadingDigits(s) ==
    IF s # <<>> /\ Head(s) \in Digits
    THEN <<Head(s)>> \o LeadingDigits(Tail(s))
    ELSE <<>>

RECURSIVE DecimalValue(_)
DecimalValue(d) ==
    IF d = <<>> THEN 0
    ELSE 10 * DecimalValue(SubSeq(d, 1, Len(d) - 1)) + DigitVal(d[Len(d)])

\* Number.parseInt(s, 10) on unsigned text
parseInt(s) ==
    IF LeadingDigits(s) = <<>> THEN NaN ELSE DecimalValue(LeadingDigits(s))

isNaN(n) == n = NaN

\* \d{4} against a whole text
IsYear4(s) == Len(s) = 4 /\ \A i \in 1..4 : s[i] \in Digits

WordPresent == <<"p", "r", "e", "s", "e", "n", "t">>
WordIn == <<"I", "n">>
WordSchool == <<"S", "c", "h", "o", "o", "l">>
WordBefore == <<"B", "e", "f", "o", "r", "e">>

\* the result of String.prototype.match when the pattern does not match
NoMatch == [matched |-> FALSE]

\* what parseType returns for text it does not accept
Null == [isNull |-> TRUE]

(***************************************************************************)
(* parseType (validateTranscriptCsv.mjs)                                   *)
(***************************************************************************)
\* trimmed.match(/^(\d{4})\s*-\s*(\d{4}|present)$/i)
yearRangeMatch(trimmed) ==
    LET afterYear == trimStart(SubSeq(trimmed, 5, Len(trimmed)))
        afterDash == trimStart(Tail(afterYear))
    IN  IF /\ Len(trimmed) >= 4
           /\ IsYear4(SubSeq(trimmed, 1, 4))
           /\ afterYear # <<>>
           /\ Head(afterYear) = "-"
           /\ (IsYear4(afterDash) \/ EqualsIgnoreCase(afterDash, WordPresent))
        THEN [matched |-> TRUE, g1 |-> SubSeq(trimmed, 1, 4), g2 |-> afterDash]
        ELSE NoMatch

\* s begins with the word w (any letter case) followed by \s+
StartsWithWord(s, w) ==
    /\ Len(s) > Len(w)
    /\ EqualsIgnoreCase(SubSeq(s, 1, Len(w)), w)
    /\ s[Len(w) + 1] \in Whitespace

\* what is left of s after the word w and the \s+ that follows it
AfterWord(s, w) == trimStart(SubSeq(s, Len(w) + 1, Len(s)))

\* trimmed.match(/^In\s+School\s+Before\s+(\d{4})$/i)
beforeMatch(trimmed) ==
    LET r1 == AfterWord(trimmed, WordIn)
        r2 == AfterWord(r1, WordSchool)
        r3 == AfterWord(r2, WordBefore)
    IN  IF /\ StartsWithWord(trimmed, WordIn)
           /\ StartsWithWord(r1, WordSchool)
           /\ StartsWithWord(r2, WordBefore)
           /\ IsYear4(r3)
        THEN [matched |-> TRUE, g1 |-> r3]
        ELSE NoMatch

\* /present/i.test(s)
testPresent(s) ==
    \E i \in 1..(Len(s) - Len(WordPresent) + 1) :
        EqualsIgnoreCase(SubSeq(s, i, i + Len(WordPresent) - 1), WordPresent)

\* a variant of RangeOrdered that rejects a one-year range
RangeOrderedStrict(start, end) == start < end

\* start <= end, the comparison of line 46
RangeOrdered(start, end) == start <= end

\* a variant of BeforeYearOk that rejects 1900 itself
BeforeYearAfter1900(end) == end > 1900

\* end >= 1900, the comparison of line 56
BeforeYearOk(end) == end >= 1900

parseType(raw, now) ==
    LET trimmed == trim(raw)
        m == yearRangeMatch(trimmed)
        b == beforeMatch(trimmed)
    IN  IF m.matched
        THEN LET start == parseInt(m.g1)
                 end == IF testPresent(m.g2) THEN now ELSE parseInt(m.g2)
             IN  IF ~isNaN(start) /\ ~isNaN(end) /\ RangeOrdered(start, end)
                 THEN [start |-> start, end |-> end]
                 ELSE Null
        ELSE IF b.matched
        THEN LET end == parseInt(b.g1)
             IN  IF ~isNaN(end) /\ BeforeYearOk(end)
                 THEN [start |-> 1900, end |-> end]
                 ELSE Null
        ELSE Null

(***************************************************************************)
(* graduationInRange (lookup form)                                         *)
(***************************************************************************)
\* type.match(/\d{4}/g): the non-overlapping runs of four digits, left to right
RECURSIVE matchAllYear4(_)
matchAllYear4(s) ==
    IF Len(s) < 4 THEN <<>>
    ELSE IF IsYear4(SubSeq(s, 1, 4))
    THEN <<SubSeq(s, 1, 4)>> \o matchAllYear4(SubSeq(s, 5, Len(s)))
    ELSE matchAllYear4(Tail(s))

\* type.match(/\d{4}/g)?.[k] || "0"   (k counted from 0)
matchOrZero(s, k) ==
    IF Len(matchAllYear4(s)) > k THEN matchAllYear4(s)[k + 1] ELSE <<"0">>

graduationInRange(type, year, now) ==
    LET startYear == parseInt(matchOrZero(type, 0))
        endYear == IF includes(type, WordPresent)
                   THEN now
                   ELSE parseInt(matchOrZero(type, 1))
    IN  IF isNaN(startYear) \/ isNaN(endYear) \/ startYear > endYear
        THEN FALSE
        ELSE year >= startYear /\ year <= endYear

(***************************************************************************)
(* Inputs of the parser harness: Type texts built from their parts         *)
(***************************************************************************)
DigitChar(d) == CHOOSE c \in Digits : DigitVal(c) = d

\* the four-digit text of year y
YearText(y) ==
    <<DigitChar(y \div 1000), DigitChar((y \div 100) % 10),
      DigitChar((y \div 10) % 10), DigitChar(y % 10)>>

\* runs of whitespace: 0..MaxBlank spaces, or one tab
Blanks == {[i \in 1..n |-> " "] : n \in 0..MaxBlank} \cup {<<"\t">>}

\* padding around a text, removed by trim
Pads == {<<>>, <<" ">>}

TestYears == {1899, 1900, 1995, 2000, 2005, 2030}

CurrentYears == {2004, 2026}

GradYears == {0, 1899, 1900, 1950, 1995, 2000, 2004, 2005, 2026, 2030}

PresentSpellings ==
    { WordPresent,
      <<"P", "R", "E", "S", "E", "N", "T">>,
      <<"P", "r", "e", "s", "e", "n", "t">> }

PhraseSpellings ==
    { <<WordIn, WordSchool, WordBefore>>,
      <<<<"i", "n">>, <<"s", "c", "h", "o", "o", "l">>, <<"b", "e", "f", "o", "r", "e">>>>,
      <<<<"I", "N">>, <<"S", "C", "H", "O", "O", "L">>, <<"B", "E", "F", "O", "R", "E">>>> }

BoundedTexts ==
    { p \o YearText(y1) \o b1 \o <<"-">> \o b2 \o YearText(y2) :
        p \in Pads, y1 \in TestYears, y2 \in TestYears, b1 \in Blanks, b2 \in Blanks }

PresentTexts ==
    { YearText(y1) \o b1 \o <<"-">> \o b2 \o w \o p :
        p \in Pads, y1 \in TestYears, b1 \in Blanks, b2 \in Blanks, w \in PresentSpellings }

BeforeTexts ==
    { ph[1] \o b1 \o ph[2] \o b2 \o ph[3] \o b3 \o YearText(y) :
        ph \in PhraseSpellings, b1 \in Blanks, b2 \in Blanks, b3 \in Blanks, y \in TestYears }

\* texts of neither form
OtherTexts ==
    { <<>>,
      <<" ">>,
      <<"n", "o", "t", " ", "a", " ", "r", "a", "n", "g", "e">>,
      <<"2", "0", "0">> \o <<"-">> \o YearText(2005),
      YearText(2000) \o <<"0">> \o <<"-">> \o YearText(2005),
      YearText(2000) \o <<"-">> \o YearText(2005) \o <<"5">>,
      YearText(2000) \o <<"-">> \o YearText(2005) \o <<" ", "x">>,
      YearText(2000) \o <<"_">> \o YearText(2005),
      YearText(2000) \o <<"-", "-">> \o YearText(2005),
      YearText(2000) \o YearText(2005),
      YearText(2000),
      WordPresent \o <<"-">> \o YearText(2000),
      YearText(2000) \o <<"-">> \o WordPresent \o <<"l", "y">>,
      WordSchool \o <<" ">> \o WordBefore \o <<" ">> \o YearText(1995),
      WordIn \o <<" ">> \o WordSchool \o <<" ">> \o WordBefore \o <<" ">> \o <<"1", "9", "9">>,
      WordIn \o <<" ">> \o WordSchool \o <<" ">> \o WordBefore \o <<" ">> \o WordPresent,
      WordIn \o <<" ">> \o WordSchool \o <<" ">> \o WordBefore \o <<" ">>
          \o YearText(1995) \o <<"-">> \o YearText(2000),
      <<"x">> \o WordIn \o <<" ">> \o WordSchool \o <<" ">> \o WordBefore \o <<" ">> \o YearText(1995) }

TypeTexts == BoundedTexts \cup PresentTexts \cup BeforeTexts \cup OtherTexts

(***************************************************************************)
(* The parser harness: one Type text and one graduation year are handed    *)
(* to parseType (validator) and then to graduationInRange (lookup form).   *)
(***************************************************************************)
NoRow == [name |-> <<>>, link |-> <<>>, type |-> <<>>]

NoIssues ==
    [missingSchoolName |-> <<>>, missingLink |-> <<>>, missingType |-> <<>>,
     invalidType |-> <<>>, gaps |-> <<>>, overlaps |-> <<>>]

MainIdle ==
    /\ pc = "idle"
    /\ parsedErrors = FALSE
    /\ nRows = 0
    /\ index = 0
    /\ row = NoRow
    /\ issues = NoIssues
    /\ rangesBySchool = <<>>
    /\ exitCode = -1
    /\ passedPrinted = FALSE

InitParse ==
    /\ MainIdle
    /\ currentYear \in CurrentYears
    /\ ppc = "input"
    /\ rawType \in TypeTexts
    /\ gradYear \in GradYears
    /\ parsedType = Null
    /\ inRange = FALSE

CallParseType ==
    /\ ppc = "input"
    /\ parsedType' = parseType(rawType, currentYear)
    /\ ppc' = "parsed"
    /\ UNCHANGED <<mainVars, currentYear, rawType, gradYear, inRange>>

CallGraduationInRange ==
    /\ ppc = "parsed"
    /\ inRange' = graduationInRange(rawType, gradYear, currentYear)
    /\ ppc' = "done"
    /\ UNCHANGED <<mainVars, currentYear, rawType, gradYear, parsedType>>

NextParse == CallParseType \/ CallGraduationInRange

SpecParse == InitParse /\ [][NextParse]_vars

(***************************************************************************)
(* The forms of Type text, stated on the text itself (not through the      *)
(* matchers above)                                                         *)
(***************************************************************************)
\* the value of a four-digit text
YearValue(d) ==
    1000 * DigitVal(d[1]) + 100 * DigitVal(d[2]) + 10 * DigitVal(d[3]) + DigitVal(d[4])

\* m is a hyphen with optional whitespace on both sides
IsHyphen(m) ==
    \E i \in 1..Len(m) :
        /\ m[i] = "-"
        /\ \A j \in 1..Len(m) : j # i => m[j] \in Whitespace

\* t is 'Y1-Y2': two four-digit years around a hyphen
IsBoundedYears(t) ==
    /\ Len(t) >= 9
    /\ IsYear4(SubSeq(t, 1, 4))
    /\ IsYear4(SubSeq(t, Len(t) - 3, Len(t)))
    /\ IsHyphen(SubSeq(t, 5, Len(t) - 4))

\* t is 'Y1-present', the word in any letter case
IsBoundedPresent(t) ==
    /\ Len(t) >= 12
    /\ IsYear4(SubSeq(t, 1, 4))
    /\ EqualsIgnoreCase(SubSeq(t, Len(t) - 6, Len(t)), WordPresent)
    /\ IsHyphen(SubSeq(t, 5, Len(t) - 7))

IsBoundedForm(t) == IsBoundedYears(t) \/ IsBoundedPresent(t)

FirstYear(t) == YearValue(SubSeq(t, 1, 4))

LastYear(t) == YearValue(SubSeq(t, Len(t) - 3, Len(t)))

\* 'In School Before ' with single spaces, the year not included
ExactPhrase == WordIn \o <<" ">> \o WordSchool \o <<" ">> \o WordBefore \o <<" ">>

\* t is exactly 'In School Before YYYY' with single spaces, in any letter case
IsExactBeforePhrase(t) ==
    /\ Len(t) = Len(ExactPhrase) + 4
    /\ EqualsIgnoreCase(SubSeq(t, 1, Len(ExactPhrase)), ExactPhrase)
    /\ IsYear4(SubSeq(t, Len(t) - 3, Len(t)))

\* the words of s: its maximal runs of non-whitespace characters
RECURSIVE SplitWords(_, _)
SplitWords(s, word) ==
    IF s = <<>> THEN (IF word = <<>> THEN <<>> ELSE <<word>>)
    ELSE IF Head(s) \in Whitespace
    THEN (IF word = <<>> THEN <<>> ELSE <<word>>) \o SplitWords(Tail(s), <<>>)
    ELSE SplitWords(Tail(s), Append(word, Head(s)))

\* t is the four words In, School, Before, YYYY (any letter case), separated
\* by one or more whitespace characters
IsBeforePhrase(t) ==
    LET w == SplitWords(t, <<>>)
    IN  /\ Len(w) = 4
        /\ EqualsIgnoreCase(w[1], WordIn)
        /\ EqualsIgnoreCase(w[2], WordSchool)
        /\ EqualsIgnoreCase(w[3], WordBefore)
        /\ IsYear4(w[4])

(***************************************************************************)
(* Claims about parseType and graduationInRange (under SpecParse)          *)
(***************************************************************************)

\* C7: for bounded text 'Y1-Y2' parseType returns {start: Y1, end: Y2} when
\* Y1 <= Y2 and null when Y1 > Y2; with 'present' as the second endpoint the
\* end is the current year under the same rule; every range returned has
\* start <= end.
C7_BoundedParse ==
    ppc # "input" =>
        LET t == trim(rawType)
        IN  /\ IsBoundedYears(t) =>
                parsedType = IF FirstYear(t) <= LastYear(t)
                             THEN [start |-> FirstYear(t), end |-> LastYear(t)]
                             ELSE Null
            /\ IsBoundedPresent(t) =>
                parsedType = IF FirstYear(t) <= currentYear
                             THEN [start |-> FirstYear(t), end |-> currentYear]
                             ELSE Null
            /\ parsedType # Null => parsedType.start <= parsedType.end

\* C7 witness: a 'Y1 - present' text with blanks around the hyphen has been
\* parsed into a range that ends in the current year.
C7_Witness ==
    /\ ppc = "done"
    /\ IsBoundedPresent(trim(rawType))
    /\ Len(trim(rawType)) > 12
    /\ parsedType # Null
    /\ parsedType.end = currentYear
    /\ parsedType.start < parsedType.end

C10_LookupAgreesWithParser ==
    (ppc = "done" /\ parsedType # Null) =>
        (inRange <=> (parsedType.start <= gradYear /\ gradYear <= parsedType.end))

(***************************************************************************)
(* main (validateTranscriptCsv.mjs): the rows of the table                 *)
(***************************************************************************)
\* the "School Name" fields a row may hold (raw, before trim)
RowNames == {<<>>, <<"A">>, <<"B", " ">>}

\* the "Link" fields a row may hold
RowLinks == {<<" ">>, <<"L">>}

\* the "Type" fields a row may hold: none, a range with start > end, and
\* three ranges of which the first overlaps the second, is followed without
\* a gap by the third, and covers the years between the second and the third
RowTypes ==
    { <<>>,
      YearText(2004) \o <<"-">> \o YearText(2000),
      YearText(2000) \o <<"-">> \o YearText(2004),
      YearText(2001) \o <<" ", "-", " ">> \o YearText(2001),
      YearText(2005) \o <<"-">> \o WordPresent }

Rows == [name : RowNames, link : RowLinks, type : RowTypes]

\* the year in which the validator runs
RunYears == {2006}

Init ==
    /\ pc = "parse"
    /\ currentYear \in RunYears
    /\ parsedErrors = FALSE
    /\ nRows = 0
    /\ index = 0
    /\ row = NoRow
    /\ issues = NoIssues
    /\ rangesBySchool = <<>>
    /\ exitCode = -1
    /\ passedPrinted = FALSE
    /\ ppc = "off"
    /\ rawType = <<>>
    /\ gradYear = 0
    /\ parsedType = Null
    /\ inRange = FALSE

\* a variant of ParseFails without process.exit(1): the run goes on to the rows
ParseFailsContinues ==
    /\ pc = "parse"
    /\ parsedErrors' = TRUE
    /\ nRows' \in 1..MaxRows
    /\ pc' = "classify"
    /\ UNCHANGED <<currentYear, index, row, issues, rangesBySchool, exitCode, passedPrinted,
                   harnessVars>>

\* Papa.parse reported errors: lines 138-144
ParseFails ==
    /\ pc = "parse"
    /\ parsedErrors' = TRUE
    /\ nRows' \in 0..MaxRows
    /\ exitCode' = 1
    /\ pc' = "exit"
    /\ UNCHANGED <<currentYear, index, row, issues, rangesBySchool, passedPrinted, harnessVars>>

\* no parse error and no data rows: lines 146-150
ParseEmpty ==
    /\ pc = "parse"
    /\ parsedErrors' = FALSE
    /\ nRows' = 0
    /\ exitCode' = 1
    /\ pc' = "exit"
    /\ UNCHANGED <<currentYear, index, row, issues, rangesBySchool, passedPrinted, harnessVars>>

\* no parse error and at least one data row: lines 146-162
ParseRows ==
    /\ pc = "parse"
    /\ parsedErrors' = FALSE
    /\ nRows' \in 1..MaxRows
    /\ pc' = "classify"
    /\ UNCHANGED <<currentYear, index, row, issues, rangesBySchool, exitCode, passedPrinted,
                   harnessVars>>

\* list with item pushed
Push(list, item) == Append(list, item)

\* rangesBySchool.get(schoolName) ?? []
MapGet(map, schoolName) ==
    IF \E i \in 1..Len(map) : map[i].schoolName = schoolName
    THEN map[CHOOSE i \in 1..Len(map) : map[i].schoolName = schoolName].ranges
    ELSE <<>>

\* rangesBySchool.set(schoolName, ranges): a new key goes last, an old key keeps its place
MapSet(map, schoolName, ranges) ==
    IF \E i \in 1..Len(map) : map[i].schoolName = schoolName
    THEN [i \in 1..Len(map) |->
            IF map[i].schoolName = schoolName
            THEN [schoolName |-> schoolName, ranges |-> ranges]
            ELSE map[i]]
    ELSE Append(map, [schoolName |-> schoolName, ranges |-> ranges])

\* a variant of ClassifiedIssues that checks the link before the school name
ClassifiedIssuesLinkFirst(iss, r, rowNumber, now) ==
    LET schoolName == trim(r.name)
        link == trim(r.link)
        type == trim(r.type)
        withLink == IF link = <<>>
                    THEN [iss EXCEPT !.missingLink =
                            Push(@, [line |-> rowNumber, schoolName |-> schoolName,
                                     type |-> type])]
                    ELSE iss
    IN  IF schoolName = <<>>
        THEN [withLink EXCEPT !.missingSchoolName = Push(@, [line |-> rowNumber])]
        ELSE IF type = <<>>
        THEN [withLink EXCEPT !.missingType =
                Push(@, [line |-> rowNumber, schoolName |-> schoolName])]
        ELSE IF parseType(type, now) = Null
        THEN [withLink EXCEPT !.invalidType =
                Push(@, [line |-> rowNumber, schoolName |-> schoolName, type |-> type])]
        ELSE withLink

\* the issue lists after the callback of rows.forEach has run on r: lines 164-199
ClassifiedIssues(iss, r, rowNumber, now) ==
    LET schoolName == trim(r.name)
        link == trim(r.link)
        type == trim(r.type)
        withLink == IF link = <<>>
                    THEN [iss EXCEPT !.missingLink =
                            Push(@, [line |-> rowNumber, schoolName |-> schoolName,
                                     type |-> type])]
                    ELSE iss
    IN  IF schoolName = <<>>
        THEN [iss EXCEPT !.missingSchoolName = Push(@, [line |-> rowNumber])]
        ELSE IF type = <<>>
        THEN [withLink EXCEPT !.missingType =
                Push(@, [line |-> rowNumber, schoolName |-> schoolName])]
        ELSE IF parseType(type, now) = Null
        THEN [withLink EXCEPT !.invalidType =
                Push(@, [line |-> rowNumber, schoolName |-> schoolName, type |-> type])]
        ELSE withLink

\* a variant of ClassifiedRanges that returns after recording a missing link
ClassifiedRangesNeedsLink(map, r, rowNumber, now) ==
    LET schoolName == trim(r.name)
        link == trim(r.link)
        type == trim(r.type)
        p == parseType(type, now)
    IN  IF schoolName = <<>> \/ link = <<>> \/ type = <<>> \/ p = Null
        THEN map
        ELSE MapSet(map, schoolName,
                    Push(MapGet(map, schoolName),
                         [line |-> rowNumber, start |-> p.start, end |-> p.end,
                          rawType |-> type, link |-> link]))

\* the map after the callback of rows.forEach has run on r: lines 164-199
ClassifiedRanges(map, r, rowNumber, now) ==
    LET schoolName == trim(r.name)
        link == trim(r.link)
        type == trim(r.type)
        p == parseType(type, now)
    IN  IF schoolName = <<>> \/ type = <<>> \/ p = Null
        THEN map
        ELSE MapSet(map, schoolName,
                    Push(MapGet(map, schoolName),
                         [line |-> rowNumber, start |-> p.start, end |-> p.end,
                          rawType |-> type, link |-> link]))

\* one call of the callback of rows.forEach
ClassifyRow ==
    /\ pc = "classify"
    /\ index < nRows
    /\ \E r \in Rows :
        /\ row' = r
        /\ issues' = ClassifiedIssues(issues, r, index + 2, currentYear)
        /\ rangesBySchool' = ClassifiedRanges(rangesBySchool, r, index + 2, currentYear)
    /\ index' = index + 1
    /\ UNCHANGED <<pc, currentYear, parsedErrors, nRows, exitCode, passedPrinted, harnessVars>>

\* (a, b) => a.start - b.start || a.end - b.end
compareRanges(a, b) ==
    IF a.start - b.start # 0 THEN a.start - b.start ELSE a.end - b.end

\* x put into the sorted list after every item that does not compare greater
RECURSIVE InsertStable(_, _)
InsertStable(sorted, x) ==
    IF sorted = <<>> THEN <<x>>
    ELSE IF compareRanges(Head(sorted), x) > 0 THEN <<x>> \o sorted
    ELSE <<Head(sorted)>> \o InsertStable(Tail(sorted), x)

\* ranges.sort(compare): Array.prototype.sort is stable
RECURSIVE sortRanges(_)
sortRanges(ranges) ==
    IF ranges = <<>> THEN <<>>
    ELSE InsertStable(sortRanges(SubSeq(ranges, 1, Len(ranges) - 1)), ranges[Len(ranges)])

\* a variant of IsGap that is off by one: adjacent years count as a gap
IsGapOffByOne(prev, curr) == curr.start > prev.end

\* curr.start > prev.end + 1, line 208
IsGap(prev, curr) == curr.start > prev.end + 1

\* a variant of IsOverlap that misses ranges sharing a single year
IsOverlapStrict(prev, curr) == curr.start < prev.end

\* curr.start <= prev.end, line 216
IsOverlap(prev, curr) == curr.start <= prev.end

Min(a, b) == IF a <= b THEN a ELSE b

GapRecord(schoolName, prev, curr) ==
    [schoolName |-> schoolName, fromYear |-> prev.end + 1, toYear |-> curr.start - 1,
     prevLine |-> prev.line, currLine |-> curr.line]

OverlapRecord(schoolName, prev, curr) ==
    [schoolName |-> schoolName, overlapStart |-> curr.start,
     overlapEnd |-> Min(prev.end, curr.end),
     prevLine |-> prev.line, currLine |-> curr.line]

\* the issue lists after the loop "for (let i = from; i < sorted.length; i += 1)"
\* (i counted from 0 as in the code): lines 204-225
RECURSIVE WalkPairs(_, _, _, _)
WalkPairs(iss, schoolName, sorted, i) ==
    IF i >= Len(sorted) THEN iss
    ELSE LET prev == sorted[i]
             curr == sorted[i + 1]
             next == IF IsGap(prev, curr)
                     THEN [iss EXCEPT !.gaps = Push(@, GapRecord(schoolName, prev, curr))]
                     ELSE IF IsOverlap(prev, curr)
                     THEN [iss EXCEPT !.overlaps =
                             Push(@, OverlapRecord(schoolName, prev, curr))]
                     ELSE iss
         IN  WalkPairs(next, schoolName, sorted, i + 1)

\* the issue lists after the loop over rangesBySchool.entries() from entry k on:
\* lines 201-226
RECURSIVE ReconciledIssues(_, _, _)
ReconciledIssues(iss, map, k) ==
    IF k > Len(map) THEN iss
    ELSE ReconciledIssues(
            WalkPairs(iss, map[k].schoolName, sortRanges(map[k].ranges), 1),
            map, k + 1)

\* ranges.sort sorts each school's list in place
SortedMap(map) ==
    [k \in 1..Len(map) |->
        [schoolName |-> map[k].schoolName, ranges |-> sortRanges(map[k].ranges)]]

\* the loop over the schools, after the last row: lines 201-226
Reconcile ==
    /\ pc = "classify"
    /\ index = nRows
    /\ issues' = ReconciledIssues(issues, rangesBySchool, 1)
    /\ rangesBySchool' = SortedMap(rangesBySchool)
    /\ pc' = "report"
    /\ UNCHANGED <<currentYear, parsedErrors, nRows, index, row, exitCode, passedPrinted,
                   harnessVars>>

\* a variant of hasIssues that treats missing links as non-fatal
hasIssuesIgnoringLinks(iss) ==
    \/ Len(iss.missingSchoolName) > 0
    \/ Len(iss.missingType) > 0
    \/ Len(iss.invalidType) > 0
    \/ Len(iss.gaps) > 0
    \/ Len(iss.overlaps) > 0

\* hasIssues of reportAndExit: lines 65-119
hasIssues(iss) ==
    \/ Len(iss.missingSchoolName) > 0
    \/ Len(iss.missingLink) > 0
    \/ Len(iss.missingType) > 0
    \/ Len(iss.invalidType) > 0
    \/ Len(iss.gaps) > 0
    \/ Len(iss.overlaps) > 0

\* reportAndExit: lines 64-128
ReportAndExit ==
    /\ pc = "report"
    /\ IF hasIssues(issues)
       THEN exitCode' = 1 /\ passedPrinted' = FALSE
       ELSE exitCode' = 0 /\ passedPrinted' = TRUE
    /\ pc' = "exit"
    /\ UNCHANGED <<currentYear, parsedErrors, nRows, index, row, issues, rangesBySchool,
                   harnessVars>>

Next ==
    \/ ParseFails
    \/ ParseEmpty
    \/ ParseRows
    \/ ClassifyRow
    \/ Reconcile
    \/ ReportAndExit

Spec == Init /\ [][Next]_vars

(***************************************************************************)
(* Reading the state                                                       *)
(***************************************************************************)
\* how many records of list carry the line number
CountLine(list, line) == Cardinality({i \in 1..Len(list) : list[i].line = line})

\* the positions <<school, item>> of all facts
FactPositions ==
    {q \in (1..Len(rangesBySchool)) \X (1..index) :
        q[2] <= Len(rangesBySchool[q[1]].ranges)}

FactAt(q) == rangesBySchool[q[1]].ranges[q[2]]

\* how many facts carry the line number
CountFacts(line) == Cardinality({q \in FactPositions : FactAt(q).line = line})

\* the facts of one school, as a list ([] for a school that has none)
FactsOf(schoolName) == MapGet(rangesBySchool, schoolName)

\* the loop over the schools has run
Reconciled == pc = "report" \/ (pc = "exit" /\ ~parsedErrors /\ nRows > 0)

Covers(f, y) == f.start <= y /\ y <= f.end

(***************************************************************************)
(* Claims about main (under Spec)                                          *)
(***************************************************************************)

\* C1: every classified row has ended in exactly one of four outcomes: a
\* missingSchoolName record, a missingType record, an invalidType record or
\* one SchoolFact; a row with an empty trimmed school name produces only the
\* missingSchoolName record (no missingLink, missingType, invalidType, fact).
C1_OneOutcomePerRow ==
    /\ \A line \in 2..(index + 1) :
        /\ CountLine(issues.missingSchoolName, line)
             + CountLine(issues.missingType, line)
             + CountLine(issues.invalidType, line)
             + CountFacts(line) = 1
        /\ CountLine(issues.missingSchoolName, line) = 1 =>
             CountLine(issues.missingLink, line) = 0
    /\ (index > 0 /\ trim(row.name) = <<>>) =>
        /\ CountLine(issues.missingSchoolName, index + 1) = 1
        /\ CountLine(issues.missingLink, index + 1) = 0
        /\ CountLine(issues.missingType, index + 1) = 0
        /\ CountLine(issues.invalidType, index + 1) = 0
        /\ CountFacts(index + 1) = 0

\* C1 witness: after a row that produced an invalidType record, a row with
\* neither school name nor link has been classified.
C1_Witness ==
    /\ pc = "classify"
    /\ index >= 2
    /\ trim(row.name) = <<>>
    /\ trim(row.link) = <<>>
    /\ row.type # <<>>
    /\ Len(issues.invalidType) > 0
    /\ CountLine(issues.missingSchoolName, index + 1) = 1

\* C2: a row with a school name, an empty trimmed link and a Type that
\* parseType accepts yields both a missingLink record {line, schoolName,
\* type} and a SchoolFact for that school; the missingLink record never stops
\* the type checks (an empty Type still yields missingType, a rejected one
\* invalidType).
C2_MissingLinkKeepsFact ==
    (/\ index > 0
     /\ trim(row.name) # <<>>
     /\ trim(row.link) = <<>>) =>
        /\ \E i \in 1..Len(issues.missingLink) :
              issues.missingLink[i] =
                  [line |-> index + 1, schoolName |-> trim(row.name),
                   type |-> trim(row.type)]
        /\ trim(row.type) = <<>> => CountLine(issues.missingType, index + 1) = 1
        /\ (trim(row.type) # <<>> /\ parseType(row.type, currentYear) = Null) =>
              CountLine(issues.invalidType, index + 1) = 1
        /\ parseType(row.type, currentYear) # Null =>
              \E i \in 1..Len(FactsOf(trim(row.name))) :
                  /\ FactsOf(trim(row.name))[i].line = index + 1
                  /\ FactsOf(trim(row.name))[i].link = <<>>
                  /\ FactsOf(trim(row.name))[i].rawType = trim(row.type)
                  /\ FactsOf(trim(row.name))[i].start =
                         parseType(row.type, currentYear).start
                  /\ FactsOf(trim(row.name))[i].end =
                         parseType(row.type, currentYear).end

\* C2 witness: the row just classified has a school name, no link and a
\* Type that is a range, and both its missingLink record and its fact exist.
C2_Witness ==
    /\ pc = "classify"
    /\ index > 0
    /\ trim(row.name) # <<>>
    /\ trim(row.link) = <<>>
    /\ parseType(row.type, currentYear) # Null
    /\ CountLine(issues.missingLink, index + 1) = 1
    /\ CountFacts(index + 1) = 1

\* the adjacent pairs <<school, i>> of the sorted lists
AdjacentPairs == {q \in FactPositions : q[2] + 1 <= Len(rangesBySchool[q[1]].ranges)}

PairName(q) == rangesBySchool[q[1]].schoolName
PairPrev(q) == rangesBySchool[q[1]].ranges[q[2]]
PairCurr(q) == rangesBySchool[q[1]].ranges[q[2] + 1]

ExpectedGap(q) ==
    [schoolName |-> PairName(q),
     fromYear |-> PairPrev(q).end + 1, toYear |-> PairCurr(q).start - 1,
     prevLine |-> PairPrev(q).line, currLine |-> PairCurr(q).line]

ExpectedOverlap(q) ==
    [schoolName |-> PairName(q),
     overlapStart |-> PairCurr(q).start,
     overlapEnd |-> IF PairPrev(q).end <= PairCurr(q).end
                    THEN PairPrev(q).end ELSE PairCurr(q).end,
     prevLine |-> PairPrev(q).line, currLine |-> PairCurr(q).line]

\* how many records of list are about the pair q
CountPair(list, q) ==
    Cardinality({i \in 1..Len(list) :
        /\ list[i].schoolName = PairName(q)
        /\ list[i].prevLine = PairPrev(q).line
        /\ list[i].currLine = PairCurr(q).line})

CountRecord(list, rec) == Cardinality({i \in 1..Len(list) : list[i] = rec})

\* C3: after the reconciliation every school's facts are sorted ascending by
\* (start, end); each adjacent pair has produced exactly one gap record
\* {prev.end+1, curr.start-1, lines} when curr.start > prev.end+1, exactly
\* one overlap record {curr.start, min(prev.end, curr.end), lines} when
\* curr.start <= prev.end, and nothing when curr.start = prev.end+1; there
\* are no other gap or overlap records.
C3_AdjacentPairRecords ==
    Reconciled =>
        /\ \A q \in AdjacentPairs :
            /\ \/ PairPrev(q).start < PairCurr(q).start
               \/ /\ PairPrev(q).start = PairCurr(q).start
                  /\ PairPrev(q).end <= PairCurr(q).end
            /\ PairCurr(q).start > PairPrev(q).end + 1 =>
                /\ CountRecord(issues.gaps, ExpectedGap(q)) = 1
                /\ CountPair(issues.gaps, q) = 1
                /\ CountPair(issues.overlaps, q) = 0
            /\ PairCurr(q).start <= PairPrev(q).end =>
                /\ CountRecord(issues.overlaps, ExpectedOverlap(q)) = 1
                /\ CountPair(issues.overlaps, q) = 1
                /\ CountPair(issues.gaps, q) = 0
            /\ PairCurr(q).start = PairPrev(q).end + 1 =>
                /\ CountPair(issues.gaps, q) = 0
                /\ CountPair(issues.overlaps, q) = 0
        /\ \A i \in 1..Len(issues.gaps) :
            \E q \in AdjacentPairs : issues.gaps[i] = ExpectedGap(q)
        /\ \A i \in 1..Len(issues.overlaps) :
            \E q \in AdjacentPairs : issues.overlaps[i] = ExpectedOverlap(q)
        /\ Len(issues.gaps) + Len(issues.overlaps) <= Cardinality(AdjacentPairs)

\* C3 witness: a school with three facts has produced one gap record and one
\* overlap record.
C3_Witness ==
    /\ pc = "exit"
    /\ Reconciled
    /\ \E k \in 1..Len(rangesBySchool) : Len(rangesBySchool[k].ranges) = 3
    /\ Len(issues.gaps) = 1
    /\ Len(issues.overlaps) = 1

\* the records of list about the school
NoRecordFor(list, schoolName) ==
    \A i \in 1..Len(list) : list[i].schoolName # schoolName

\* the years from the smallest start to the largest end of a non-empty list
SpanYears(ranges) ==
    LET starts == {ranges[i].start : i \in 1..Len(ranges)}
        ends == {ranges[i].end : i \in 1..Len(ranges)}
        minStart == CHOOSE a \in starts : \A b \in starts : a <= b
        maxEnd == CHOOSE a \in ends : \A b \in ends : a >= b
    IN  minStart..maxEnd

\* C4: when the reconciliation reports no gap and no overlap for a school,
\* every year from its smallest start to its largest end is covered by
\* exactly one of its ranges; and if two ranges of a school share a year, an
\* overlap record is reported for that school.
C4_CleanSchoolIsPartition ==
    Reconciled =>
        \A k \in 1..Len(rangesBySchool) :
            LET name == rangesBySchool[k].schoolName
                ranges == rangesBySchool[k].ranges
                shared == \E i, j \in 1..Len(ranges) :
                            /\ i # j
                            /\ \E y \in ranges[i].start..ranges[i].end : Covers(ranges[j], y)
            IN  /\ (NoRecordFor(issues.gaps, name) /\ NoRecordFor(issues.overlaps, name)) =>
                    /\ ~shared
                    /\ \A y \in SpanYears(ranges) :
                          Cardinality({i \in 1..Len(ranges) : Covers(ranges[i], y)}) = 1
                /\ shared => ~NoRecordFor(issues.overlaps, name)

\* C4 witness: a validation that passed with a school that has two ranges.
C4_Witness ==
    /\ pc = "exit"
    /\ exitCode = 0
    /\ \E k \in 1..Len(rangesBySchool) : Len(rangesBySchool[k].ranges) >= 2

\* C5: every reported gap is a span of years not covered by any of that
\* school's ranges.
C5_GapYearsUncovered ==
    Reconciled =>
        \A g \in 1..Len(issues.gaps) :
            \A y \in issues.gaps[g].fromYear..issues.gaps[g].toYear :
                \A i \in 1..Len(FactsOf(issues.gaps[g].schoolName)) :
                    ~Covers(FactsOf(issues.gaps[g].schoolName)[i], y)

AllCategoriesEmpty ==
    /\ issues.missingSchoolName = <<>>
    /\ issues.missingLink = <<>>
    /\ issues.missingType = <<>>
    /\ issues.invalidType = <<>>
    /\ issues.gaps = <<>>
    /\ issues.overlaps = <<>>

\* C6: a run that reached the report succeeds (confirming line printed, exit
\* status 0) iff all six issue categories are empty; otherwise, also with
\* missingLink as the only non-empty category, the exit status is 1.
C6_SuccessIffNoIssues ==
    (pc = "exit" /\ Reconciled) =>
        /\ (exitCode = 0 /\ passedPrinted) <=> AllCategoriesEmpty
        /\ ~AllCategoriesEmpty => (exitCode = 1 /\ ~passedPrinted)
        /\ exitCode \in {0, 1}

\* C6 witness: a run whose only issue is a missing link has ended with
\* exit status 1.
C6_Witness ==
    /\ pc = "exit"
    /\ Reconciled
    /\ issues.missingLink # <<>>
    /\ issues.missingSchoolName = <<>>
    /\ issues.missingType = <<>>
    /\ issues.invalidType = <<>>
    /\ issues.gaps = <<>>
    /\ issues.overlaps = <<>>
    /\ exitCode = 1

\* C9: a parse that reports an error or yields no data row ends the run
\* with exit status 1 with no row classified, no issue record, no fact and
\* no report; rows are classified only after a parse without errors and with
\* at least one row; the reconciliation has run only after every row has
\* been classified.
C9_ParseFailureStopsRun ==
    /\ (pc # "parse" /\ (parsedErrors \/ nRows = 0)) =>
        /\ pc = "exit"
        /\ exitCode = 1
        /\ index = 0
        /\ issues = NoIssues
        /\ rangesBySchool = <<>>
        /\ ~passedPrinted
    /\ (index > 0 \/ issues # NoIssues \/ rangesBySchool # <<>>) =>
        (~parsedErrors /\ nRows >= 1 /\ pc # "parse")
    /\ (pc = "report" \/ passedPrinted \/ exitCode = 0
          \/ issues.gaps # <<>> \/ issues.overlaps # <<>>) =>
        (index = nRows /\ nRows >= 1 /\ ~parsedErrors)

\* C9 witness: the parse reported errors for a table that has data rows, and
\* the run has ended with exit status 1 and nothing classified.
C9_Witness ==
    /\ pc = "exit"
    /\ parsedErrors
    /\ nRows > 0
    /\ index = 0
    /\ exitCode = 1

\* every fact built from a parsed range has start <= end (second part of C7)
FactsOrdered == \A q \in FactPositions : FactAt(q).start <= FactAt(q).end

====
